---- MODULE Spec2Model ----
(***************************************************************************)
(* A model of tracing-line-filter's LineFilter (src/src/lib.rs): the two   *)
(* allow-lists by_module and by_file, the optional EnvFilter fallback, the *)
(* mutation API (enable_by_mod, enable_by_file, with_modules, with_files,  *)
(* with_env_filter) and the two Layer queries (register_callsite, enabled).*)
(***************************************************************************)
EXTENDS Integers, Sequences, FiniteSets, TLC

VARIABLES by_module, by_file, env, last

vars == <<by_module, by_file, env, last>>

(***************************************************************************)
(* Values.  Option<T> is a sequence of length 0 (None) or 1 (Some(x)).     *)
(* A str is a TLA+ string for module paths and targets; a Path / OsStr is  *)
(* a sequence of bytes, written as one-character strings, where "\\xFF" is *)
(* a byte that is not valid UTF-8.                                         *)
(***************************************************************************)
None == <<>>

Some(x) == <<x>>

\* Longest sequence handed to with_modules / with_files.
MaxBulk == 2

\* Module paths / targets and line numbers the callers and call sites use.
Idents == {"app", "tgt"}

Lines == {10, 11}

\* "/a.rs": absolute, extension rs, valid UTF-8.
PathAbsRs == <<"/", "a", ".", "r", "s">>

\* "a.rs": relative.
PathRelRs == <<"a", ".", "r", "s">>

\* "/a.md": absolute, not a Rust source file.
PathAbsMd == <<"/", "a", ".", "m", "d">>

\* "/\xFF.rs": absolute, extension rs, not valid UTF-8.
PathBadUtf8 == <<"/", "\\xFF", ".", "r", "s">>

\* "/.rs": absolute, a dot-file without any extension.
PathDotFile == <<"/", ".", "r", "s">>

Paths == {PathAbsRs, PathRelRs, PathAbsMd, PathBadUtf8, PathDotFile}

\* The (path, line) pairs handed to with_files.
BulkFiles ==
    {<<PathAbsRs, 10>>, <<PathAbsRs, 11>>, <<PathRelRs, 10>>, <<PathAbsMd, 11>>}

\* The (module, line) pairs handed to with_modules.
BulkModules == {<<"app", 10>>, <<"tgt", 11>>}

SeqsUpTo(S, n) == UNION {[1..k -> S] : k \in 0..n}

\* tracing_core::Metadata as far as LineFilter reads it.
Descriptors ==
    [module_path : {None, Some("app")},
     target : Idents,
     file : {None, Some(PathAbsRs)},
     line : {None} \cup {Some(l) : l \in Lines}]

\* layer::Context: opaque to LineFilter, read by the fallback only.
Contexts == {"in_span", "no_span"}

\* Two EnvFilter configurations: a static target directive and a dynamic
\* (span-scoped) directive.
Fallbacks == {"target=tgt", "dynamic"}

(***************************************************************************)
(* std::path::Path as enable_by_file uses it.                              *)
(***************************************************************************)
IsUtf8(bytes) == \A i \in 1..Len(bytes) : bytes[i] # "\\xFF"

is_absolute(p) == Len(p) > 0 /\ p[1] = "/"

\* Index of the last occurrence of byte c in s, 0 when there is none.
LastIndexOf(s, c) ==
    LET hits == {i \in 1..Len(s) : s[i] = c}
    IN  IF hits = {} THEN 0 ELSE CHOOSE i \in hits : \A j \in hits : j <= i

file_name(p) ==
    LET k == LastIndexOf(p, "/")
        name == SubSeq(p, k + 1, Len(p))
    IN  IF name = <<>> \/ name = <<".", ".">> THEN None ELSE Some(name)

extension(p) ==
    LET fname == file_name(p)
    IN  IF fname = None THEN None
        ELSE LET name == fname[1]
                 k == LastIndexOf(name, ".")
             IN  IF k <= 1 THEN None
                 ELSE Some(SubSeq(name, k + 1, Len(name)))

to_str(os) == IF IsUtf8(os) THEN Some(os) ELSE None

and_then_to_str(opt) == IF opt = None THEN None ELSE to_str(opt[1])

(***************************************************************************)
(* BadPath and Result.                                                     *)
(***************************************************************************)
BadPath(path, message) == [path |-> path, message |-> message]

Ok == [ok |-> TRUE]

Err(e) == [ok |-> FALSE, err |-> e]

(***************************************************************************)
(* HashSet<(Cow<str>, u32)>.                                               *)
(***************************************************************************)
insert(set, key) == set \cup {key}

RECURSIVE extend(_, _)
extend(set, items) ==
    IF items = <<>> THEN set
    ELSE extend(insert(set, Head(items)), Tail(items))

(***************************************************************************)
(* The fallback EnvFilter's own Layer implementation.  LineFilter treats   *)
(* it as a black box; two configurations give it verdicts that depend on   *)
(* the descriptor ("target=tgt") and on the context ("dynamic").           *)
(***************************************************************************)
env_enabled(f, md, cx) ==
    IF f = "target=tgt" THEN md.target = "tgt" ELSE cx = "in_span"

env_register_callsite(f, md) ==
    IF f = "target=tgt"
    THEN (IF md.target = "tgt" THEN "always" ELSE "never")
    ELSE "sometimes"

(***************************************************************************)
(* LineFilter::contains, register_callsite and enabled: reads of the       *)
(* current filter state.                                                   *)
(***************************************************************************)
unwrap_or_else(opt, dflt) == IF opt = None THEN dflt ELSE opt[1]

\* contains with the line check lost: a descriptor without a line matches a
\* module path or file stored under any line.
contains_any_line(md) ==
    LET module == unwrap_or_else(md.module_path, md.target)
        lines == IF md.line # None THEN {md.line[1]} ELSE Lines
    IN  \E line \in lines :
            \/ <<module, line>> \in by_module
            \/ md.file # None /\ <<md.file[1], line>> \in by_file

\* contains keyed by the target whether or not a module path is present.
contains_by_target(md) ==
    IF md.line # None
    THEN LET line == md.line[1]
         IN  \/ <<md.target, line>> \in by_module
             \/ md.file # None /\ <<md.file[1], line>> \in by_file
    ELSE FALSE

contains(md) ==
    IF md.line # None
    THEN LET line == md.line[1]
             module == unwrap_or_else(md.module_path, md.target)
         IN  IF <<module, line>> \in by_module THEN TRUE
             ELSE IF md.file # None /\ <<md.file[1], line>> \in by_file
                  THEN TRUE
                  ELSE FALSE
    ELSE FALSE

\* register_callsite answering from the boolean decision: a fallback's
\* Sometimes becomes Always.
register_callsite_no_sometimes(md) ==
    IF contains(md) THEN "always"
    ELSE IF env = None THEN "never"
         ELSE IF env_register_callsite(env[1], md) = "never" THEN "never"
              ELSE "always"

register_callsite(md) ==
    IF contains(md) THEN "always"
    ELSE IF env = None THEN "never"
         ELSE env_register_callsite(env[1], md)

\* enabled asking the fallback first, the allow-lists only without one.
enabled_fallback_first(md, cx) ==
    IF env # None THEN env_enabled(env[1], md, cx) ELSE contains(md)

\* enabled with unwrap_or(true) for the missing fallback.
enabled_unwrap_or_true(md, cx) ==
    IF contains(md) THEN TRUE
    ELSE IF env = None THEN TRUE
         ELSE env_enabled(env[1], md, cx)

enabled(md, cx) ==
    IF contains(md) THEN TRUE
    ELSE IF env = None THEN FALSE
         ELSE env_enabled(env[1], md, cx)

(***************************************************************************)
(* The mutation API as functions of the list they change.                  *)
(***************************************************************************)
\* enable_by_mod switching a pair off when it is already on.
enable_by_mod_toggle(bm, module, line) ==
    IF <<module, line>> \in bm THEN bm \ {<<module, line>>}
    ELSE insert(bm, <<module, line>>)

enable_by_mod(bm, module, line) == insert(bm, <<module, line>>)

\* with_modules assigning the collected pairs instead of extending the set.
with_modules_assign(bm, modules) == extend({}, modules)

with_modules(bm, modules) == extend(bm, modules)

\* enable_by_file without validation: every path is inserted as given.
enable_by_file_unvalidated(bf, file, line) ==
    [by_file |-> insert(bf, <<file, line>>), ret |-> Ok]

\* The by_file set after the call, and the call's Result.
enable_by_file(bf, file, line) ==
    IF ~is_absolute(file)
    THEN [by_file |-> bf,
          ret |-> Err(BadPath(file, "file paths must be absolute"))]
    ELSE IF and_then_to_str(extension(file)) # Some(<<"r", "s">>)
    THEN [by_file |-> bf,
          ret |-> Err(BadPath(file, "files must be Rust source code files"))]
    ELSE IF to_str(file) = None
    THEN [by_file |-> bf,
          ret |-> Err(BadPath(file, "file paths must be valid utf-8"))]
    ELSE [by_file |-> insert(bf, <<to_str(file)[1], line>>), ret |-> Ok]

\* with_files validating every entry before inserting any: on an invalid
\* entry the first error is returned and by_file is left as it was.
with_files_all_or_nothing(bf, files) ==
    LET bad == {i \in 1..Len(files) :
                   ~enable_by_file(bf, files[i][1], files[i][2]).ret.ok}
    IN  IF bad = {}
        THEN [by_file |-> bf \cup {files[i] : i \in 1..Len(files)},
              ret |-> Ok]
        ELSE LET k == CHOOSE i \in bad : \A j \in bad : i <= j
             IN  [by_file |-> bf,
                  ret |-> enable_by_file(bf, files[k][1], files[k][2]).ret]

RECURSIVE with_files(_, _)
with_files(bf, files) ==
    IF files = <<>> THEN [by_file |-> bf, ret |-> Ok]
    ELSE LET r == enable_by_file(bf, Head(files)[1], Head(files)[2])
         IN  IF r.ret.ok THEN with_files(r.by_file, Tail(files)) ELSE r

\* with_env_filter keeping a fallback that is already stored.
with_env_filter_keep_first(old, new) == IF old = None THEN Some(new) ELSE old

with_env_filter(old, new) == Some(new)

(***************************************************************************)
(* The state machine: one action per method of LineFilter.  last records   *)
(* the most recent call: its arguments, what it returned and, for a call   *)
(* that takes &mut self, the filter as it was when the call was made.      *)
(***************************************************************************)
Snapshot == [by_module |-> by_module, by_file |-> by_file, env |-> env]

Init ==
    /\ by_module = {}
    /\ by_file = {}
    /\ env = None
    /\ last = [op |-> "new"]

WithEnvFilter ==
    \E f \in Fallbacks :
        /\ env' = with_env_filter(env, f)
        /\ last' = [op |-> "with_env_filter", env |-> f, before |-> Snapshot]
        /\ UNCHANGED <<by_module, by_file>>

EnableByMod ==
    \E module \in Idents, line \in Lines :
        /\ by_module' = enable_by_mod(by_module, module, line)
        /\ last' = [op |-> "enable_by_mod", module |-> module, line |-> line,
                    before |-> Snapshot]
        /\ UNCHANGED <<by_file, env>>

EnableByFile ==
    \E file \in Paths, line \in Lines :
        LET r == enable_by_file(by_file, file, line)
        IN  /\ by_file' = r.by_file
            /\ last' = [op |-> "enable_by_file", file |-> file, line |-> line,
                        ret |-> r.ret, before |-> Snapshot]
            /\ UNCHANGED <<by_module, env>>

WithModules ==
    \E modules \in SeqsUpTo(BulkModules, MaxBulk) :
        /\ by_module' = with_modules(by_module, modules)
        /\ last' = [op |-> "with_modules", modules |-> modules,
                    before |-> Snapshot]
        /\ UNCHANGED <<by_file, env>>

WithFiles ==
    \E files \in SeqsUpTo(BulkFiles, MaxBulk) :
        LET r == with_files(by_file, files)
        IN  /\ by_file' = r.by_file
            /\ last' = [op |-> "with_files", files |-> files, ret |-> r.ret,
                        before |-> Snapshot]
            /\ UNCHANGED <<by_module, env>>

RegisterCallsite ==
    \E md \in Descriptors :
        /\ last' = [op |-> "register_callsite", md |-> md,
                    ret |-> register_callsite(md)]
        /\ UNCHANGED <<by_module, by_file, env>>

Enabled ==
    \E md \in Descriptors, cx \in Contexts :
        /\ last' = [op |-> "enabled", md |-> md, cx |-> cx,
                    ret |-> enabled(md, cx)]
        /\ UNCHANGED <<by_module, by_file, env>>

Next ==
    \/ WithEnvFilter
    \/ EnableByMod
    \/ EnableByFile
    \/ WithModules
    \/ WithFiles
    \/ RegisterCallsite
    \/ Enabled

Spec == Init /\ [][Next]_vars

(***************************************************************************)
(* Vocabulary of the properties below.                                     *)
(***************************************************************************)
HasLine(md) == md.line # None

\* (module path, line) of the descriptor is stored in by_module.
ModuleListed(md) ==
    /\ HasLine(md)
    /\ md.module_path # None
    /\ <<md.module_path[1], md.line[1]>> \in by_module

\* (target, line) of the descriptor is stored in by_module.
TargetListed(md) ==
    /\ HasLine(md)
    /\ <<md.target, md.line[1]>> \in by_module

\* (file, line) of the descriptor is stored in by_file.
FileListed(md) ==
    /\ HasLine(md)
    /\ md.file # None
    /\ <<md.file[1], md.line[1]>> \in by_file

\* (module-or-target, line) of the descriptor is stored in by_module.
ModuleOrTargetListed(md) ==
    IF md.module_path # None THEN ModuleListed(md) ELSE TargetListed(md)

Unlisted(md) == ~ModuleOrTargetListed(md) /\ ~FileListed(md)

IsQuery == last.op \in {"enabled", "register_callsite"}

FallbackEnabled(md, cx) == env # None /\ env_enabled(env[1], md, cx)

FallbackInterest(md) ==
    IF env = None THEN "never" ELSE env_register_callsite(env[1], md)

\* C1: a descriptor with a line number whose (module, line) is in
\* by_module or whose (file, line) is in by_file is enabled for every
\* context, with no fallback and with a fallback that rejects it alike.
C1_AllowListPriority ==
    /\ \A md \in Descriptors :
          (ModuleListed(md) \/ FileListed(md)) =>
              \A cx \in Contexts : enabled(md, cx) = TRUE
    /\ (last.op = "enabled"
           /\ (ModuleListed(last.md) \/ FileListed(last.md)))
          => last.ret = TRUE

\* C1 witness: enabled returned true for an allow-listed descriptor that the
\* configured fallback rejects.
C1_Witness ==
    /\ last.op = "enabled"
    /\ ModuleListed(last.md) \/ FileListed(last.md)
    /\ env # None
    /\ ~env_enabled(env[1], last.md, last.cx)
    /\ last.ret = TRUE

\* C2: for a descriptor in neither allow-list, enabled returns exactly the
\* fallback's decision, and false when no fallback is configured.
C2_UnlistedDelegates ==
    /\ \A md \in Descriptors :
          Unlisted(md) =>
              \A cx \in Contexts : enabled(md, cx) = FallbackEnabled(md, cx)
    /\ (last.op = "enabled" /\ Unlisted(last.md))
          => last.ret = FallbackEnabled(last.md, last.cx)

\* C2 witness: enabled returned the fallback's true for an unlisted
\* descriptor, in a filter whose allow-lists are not empty.
C2_Witness ==
    /\ last.op = "enabled"
    /\ Unlisted(last.md)
    /\ by_module # {}
    /\ by_file # {}
    /\ env # None
    /\ last.ret = TRUE

\* C3: register_callsite returns Always for a descriptor matching an
\* allow-list; otherwise the fallback's verdict unchanged, and Never when
\* no fallback is configured.
C3_InterestVerdict ==
    /\ \A md \in Descriptors :
          register_callsite(md) =
              IF ModuleOrTargetListed(md) \/ FileListed(md)
              THEN "always" ELSE FallbackInterest(md)
    /\ last.op = "register_callsite" =>
          last.ret = IF ModuleOrTargetListed(last.md) \/ FileListed(last.md)
                     THEN "always" ELSE FallbackInterest(last.md)

\* C3 witness: register_callsite passed on the fallback's Sometimes for an
\* unlisted descriptor.
C3_Witness ==
    /\ last.op = "register_callsite"
    /\ Unlisted(last.md)
    /\ env # None
    /\ last.ret = "sometimes"

C5_NoLineNeverMatches ==
    /\ \A md \in Descriptors :
          ~HasLine(md) =>
              /\ ~contains(md)
              /\ env = None =>
                    /\ \A cx \in Contexts : enabled(md, cx) = FALSE
                    /\ register_callsite(md) = "never"
    /\ (IsQuery /\ ~HasLine(last.md) /\ env = None) =>
          last.ret = IF last.op = "enabled" THEN FALSE ELSE "never"

\* C5 witness: register_callsite returned Never, with no fallback, for a
\* descriptor without a line whose module path and file are both stored.
C5_Witness ==
    /\ last.op = "register_callsite"
    /\ ~HasLine(last.md)
    /\ last.md.module_path # None
    /\ \E l \in Lines : <<last.md.module_path[1], l>> \in by_module
    /\ last.md.file # None
    /\ \E l \in Lines : <<last.md.file[1], l>> \in by_file
    /\ env = None
    /\ last.ret = "never"

\* What the claims call an invalid path: not absolute, or an extension
\* other than rs, or not valid UTF-8.
Relative(p) == p = <<>> \/ Head(p) # "/"

NotRustSource(p) == extension(p) # Some(<<"r", "s">>)

NotText(p) == \E i \in 1..Len(p) : p[i] = "\\xFF"

InvalidPath(p) == Relative(p) \/ NotRustSource(p) \/ NotText(p)

\* C6: enable_by_file with an invalid path returns BadPath carrying that
\* path and changes neither allow-list nor the fallback; a path passing all
\* three checks is inserted into by_file.
C6_BadPathLeavesFilter ==
    last.op = "enable_by_file" =>
        IF InvalidPath(last.file)
        THEN /\ ~last.ret.ok
             /\ last.ret.err.path = last.file
             /\ Snapshot = last.before
        ELSE /\ last.ret = Ok
             /\ by_file = last.before.by_file \cup {<<last.file, last.line>>}
             /\ by_module = last.before.by_module
             /\ env = last.before.env

\* C6 witness: enable_by_file rejected a path that is absolute and ends in
\* .rs but is not UTF-8, on a filter holding keys and a fallback.
C6_Witness ==
    /\ last.op = "enable_by_file"
    /\ ~Relative(last.file)
    /\ ~NotRustSource(last.file)
    /\ NotText(last.file)
    /\ ~last.ret.ok
    /\ by_file # {}
    /\ by_module # {}
    /\ env # None

\* Index of the first invalid path of a with_files argument, 0 if none.
FirstInvalid(files) ==
    LET bad == {i \in 1..Len(files) : InvalidPath(files[i][1])}
    IN  IF bad = {} THEN 0 ELSE CHOOSE i \in bad : \A j \in bad : i <= j

\* C7: with_files inserts the entries before the first invalid path and
\* returns that entry's BadPath, inserting nothing after it; with no invalid
\* path it returns success with every entry inserted.
C7_WithFilesStopsAtFirstError ==
    last.op = "with_files" =>
        LET files == last.files
            k == FirstInvalid(files)
        IN  IF k = 0
            THEN /\ last.ret = Ok
                 /\ by_file = last.before.by_file
                                \cup {files[i] : i \in 1..Len(files)}
            ELSE /\ ~last.ret.ok
                 /\ last.ret = enable_by_file(by_file, files[k][1],
                                              files[k][2]).ret
                 /\ last.ret.err.path = files[k][1]
                 /\ by_file = last.before.by_file
                                \cup {files[i] : i \in 1..(k - 1)}

\* C7 witness: with_files failed on its second entry after inserting a
\* first entry that was not in by_file before.
C7_Witness ==
    /\ last.op = "with_files"
    /\ Len(last.files) = 2
    /\ ~last.ret.ok
    /\ last.ret.err.path = last.files[2][1]
    /\ last.files[1] \notin last.before.by_file
    /\ last.files[1] \in by_file

\* C8: enable_by_mod with a pair that is already enabled leaves by_module,
\* and so every enabled / register_callsite result, as it was; a pair
\* repeated inside one with_modules sequence counts once.
C8_EnableByModIdempotent ==
    /\ (last.op = "enable_by_mod"
           /\ <<last.module, last.line>> \in last.before.by_module)
          => by_module = last.before.by_module
    /\ last.op = "enable_by_mod" =>
          by_module = last.before.by_module \cup {<<last.module, last.line>>}
    /\ last.op = "with_modules" =>
          by_module = last.before.by_module
                        \cup {last.modules[i] : i \in 1..Len(last.modules)}

\* C8 witness: enable_by_mod was called with a pair that was already in a
\* by_module holding another pair as well.
C8_Witness ==
    /\ last.op = "enable_by_mod"
    /\ <<last.module, last.line>> \in last.before.by_module
    /\ Cardinality(last.before.by_module) > 1

\* C9 as stated: module path and target have equal priority, so a
\* descriptor with a line whose (target, line) is in by_module matches.
C9_TargetEqualPriority ==
    \A md \in Descriptors : TargetListed(md) => contains(md)

\* C9 as the code has it: the by_module key is the module path when the
\* descriptor has one and the target only when it has none; the target of
\* a descriptor that has a module path is not looked up.
C9_TargetOnlyWithoutModule ==
    /\ \A md \in Descriptors :
          HasLine(md) =>
              /\ (md.module_path = None /\ TargetListed(md)) => contains(md)
              /\ ModuleListed(md) => contains(md)
              /\ (md.module_path # None /\ ~ModuleListed(md)
                    /\ ~FileListed(md)) => ~contains(md)
    /\ (last.op = "register_callsite" /\ last.md.module_path = None
           /\ TargetListed(last.md)) => last.ret = "always"

\* C9 witness: register_callsite returned Always for a descriptor without
\* a module path through its target alone.
C9_Witness ==
    /\ last.op = "register_callsite"
    /\ last.md.module_path = None
    /\ TargetListed(last.md)
    /\ ~FileListed(last.md)
    /\ env = None
    /\ last.ret = "always"

\* C10: with_env_filter stores the given fallback in place of any earlier
\* one and leaves both allow-lists alone; afterwards every unlisted
\* descriptor gets the new fallback's verdicts.
C10_FallbackReplaced ==
    last.op = "with_env_filter" =>
        /\ env = Some(last.env)
        /\ by_module = last.before.by_module
        /\ by_file = last.before.by_file
        /\ \A md \in Descriptors :
              Unlisted(md) =>
                  /\ register_callsite(md)
                        = env_register_callsite(last.env, md)
                  /\ \A cx \in Contexts :
                        enabled(md, cx) = env_enabled(last.env, md, cx)

\* C10 witness: with_env_filter replaced a different fallback whose verdict
\* on some unlisted descriptor differs from the new one's.
C10_Witness ==
    /\ last.op = "with_env_filter"
    /\ last.before.env # None
    /\ last.before.env # Some(last.env)
    /\ by_module # {}
    /\ \E md \in Descriptors, cx \in Contexts :
          /\ Unlisted(md)
          /\ env_enabled(last.before.env[1], md, cx)
                # env_enabled(last.env, md, cx)

====
